---- MODULE Spec2Model ----
(***************************************************************************)
(* A model of talm's `template` command (pkg/commands/template.go), of the *)
(* helper templates of the embedded `talm` library chart                   *)
(* (talm/templates/_helpers.tpl in the generated preset table), and of the *)
(* `init` command that writes a project directory from a preset.           *)
(*                                                                         *)
(* Five specifications share the module:                                   *)
(*   Spec      the template command: flag parsing, PreRunE, RunE           *)
(*   SpecSize  talm.human_size applied to byte counts                      *)
(*   SpecDisk  talm.discovered.system_disk_name applied to disk lists      *)
(*   SpecNet   the route/address/link helpers applied to node snapshots    *)
(*   SpecInit  the init command writing a project directory                *)
(***************************************************************************)
EXTENDS Integers, Sequences, FiniteSets, TLC

VARIABLES
    \* ---- the template command ----
    Config,            \* Config.TemplateOptions and Config.RootDir (project configuration)
    GlobalArgs,        \* GlobalArgs.Nodes / GlobalArgs.Endpoints
    cli,               \* the command line every invocation of this process is given
    templateCmdFlags,  \* the package-level flag struct
    changed,           \* names of the flags whose pflag Changed bit is set
    pc,                \* position of the command: idle, parsed, prerun, done, rejected
    runs,              \* number of invocations started in this process
    client,            \* the client handed to the template closure in this invocation
    conn,              \* the node connection acquired in this invocation
    rendered,          \* what engine.Render returned in this invocation
    out,               \* standard output of this invocation
    ret,               \* the error the command returned ("nil" for none)
    optsLog,           \* the engine.Options handed to the renderer, one per render
    \* ---- talm.human_size ----
    sizeIn, sizeOut,
    \* ---- talm.discovered.system_disk_name ----
    Disks, diskOut,
    \* ---- the lookup-backed helpers ----
    routes, addresses, links, node, floatingIP, offlineLookup, helper, netOut,
    \* ---- the init command ----
    fs,                \* the files of the project directory: path -> content
    initRuns,          \* number of runs of init so far
    initCmdFlags,      \* the flag struct of the last run (force)
    initRet,           \* what the last run returned ("nil" for no error)
    written,           \* the files the last run wrote in full
    refused            \* the files whose write the last run rejected or failed

cmdVars  == <<Config, GlobalArgs, cli, templateCmdFlags, changed, pc, runs,
              client, conn, rendered, out, ret, optsLog>>
sizeVars == <<sizeIn, sizeOut>>
diskVars == <<Disks, diskOut>>
netVars  == <<routes, addresses, links, node, floatingIP, offlineLookup, helper, netOut>>
initVars == <<fs, initRuns, initCmdFlags, initRet, written, refused>>
vars     == <<cmdVars, sizeVars, diskVars, netVars, initVars>>

(***************************************************************************)
(* Bounds                                                                  *)
(***************************************************************************)
MaxRuns == 2        \* invocations of the command in one process

(***************************************************************************)
(* The template command                                                    *)
(***************************************************************************)

\* The six list-valued options PreRunE prepends the project configuration to.
ListFlags == {"valueFiles", "values", "stringValues", "fileValues",
              "jsonValues", "literalValues"}
SliceFlags == ListFlags \cup {"templateFiles"}
BoolFlags == {"insecure", "full", "offline"}
StringFlags == {"talosVersion", "withSecrets", "kubernetesVersion"}

NoLists == [f \in SliceFlags |-> <<>>]
NoBools == [f \in BoolFlags |-> "unset"]
NoStrings == [f \in StringFlags |-> <<>>]

\* The zero value of the flag struct after init() registered the flags:
\* every list empty, every bool false, kubernetes-version at its default.
FlagDefaults ==
    [lists   |-> NoLists,
     bools   |-> [f \in BoolFlags |-> FALSE],
     strings |-> [f \in StringFlags |->
                    IF f = "kubernetesVersion" THEN "DefaultKubernetesVersion" ELSE ""]]

\* Project configurations (Chart.yaml templateOptions) the process may have loaded.
Configs ==
    { [RootDir |-> ".",
       lists   |-> [f \in ListFlags |-> <<>>],
       bools   |-> [f \in {"full", "offline"} |-> FALSE],
       strings |-> [f \in StringFlags |->
                      IF f = "withSecrets" THEN "secrets.yaml" ELSE ""]],
      [RootDir |-> ".",
       lists   |-> [f \in ListFlags |->
                      IF f = "valueFiles" THEN <<"values.yaml">>
                      ELSE IF f = "values" THEN <<"b=2">> ELSE <<>>],
       bools   |-> [f \in {"full", "offline"} |-> f = "offline"],
       strings |-> [f \in StringFlags |->
                      IF f = "withSecrets" THEN "secrets.yaml"
                      ELSE IF f = "talosVersion" THEN "v1.7" ELSE ""]],
      [RootDir |-> "cluster",
       lists   |-> [f \in ListFlags |-> <<"cfg-" \o f>>],
       bools   |-> [f \in {"full", "offline"} |-> f = "full"],
       strings |-> [f \in StringFlags |->
                      IF f = "kubernetesVersion" THEN "1.30.0" ELSE "v1.7"]] }

GlobalArgsChoices ==
    { [Nodes |-> <<>>, Endpoints |-> <<>>],
      [Nodes |-> <<"10.0.0.2">>, Endpoints |-> <<"10.0.0.1", "10.0.0.3">>] }

\* A command line: the values given to each flag (an empty list, "unset" or <<>>
\* when the flag is not on the command line) and the positional arguments.
CommandLine(lists, bools, strings, args) ==
    [lists |-> lists, bools |-> bools, strings |-> strings, args |-> args]

WithList(l, f, v) == [l EXCEPT ![f] = v]

CommandLines ==
    { \* talm template
      CommandLine(NoLists, NoBools, NoStrings, <<>>),
      \* talm template -t templates/controlplane.yaml
      CommandLine(WithList(NoLists, "templateFiles", <<"templates/controlplane.yaml">>),
                  NoBools, NoStrings, <<>>),
      \* talm template -t templates/controlplane.yaml -t templates/worker.yaml --offline
      CommandLine(WithList(NoLists, "templateFiles",
                           <<"templates/controlplane.yaml", "templates/worker.yaml">>),
                  [NoBools EXCEPT !["offline"] = "true"], NoStrings, <<>>),
      \* talm template -i -t templates/controlplane.yaml --values prod.yaml --set a=1
      CommandLine(WithList(WithList(WithList(NoLists, "templateFiles",
                                             <<"templates/controlplane.yaml">>),
                                    "valueFiles", <<"prod.yaml">>),
                           "values", <<"a=1">>),
                  [NoBools EXCEPT !["insecure"] = "true"], NoStrings, <<>>),
      \* talm template -t templates/worker.yaml --offline=false --full --talos-version v1.6
      CommandLine(WithList(NoLists, "templateFiles", <<"templates/worker.yaml">>),
                  [NoBools EXCEPT !["offline"] = "false", !["full"] = "true"],
                  [NoStrings EXCEPT !["talosVersion"] = <<"v1.6">>], <<>>),
      \* talm template -t templates/controlplane.yaml extra.yaml
      CommandLine(WithList(NoLists, "templateFiles", <<"templates/controlplane.yaml">>),
                  NoBools, NoStrings, <<"extra.yaml">>),
      \* talm template --offline -i -t templates/controlplane.yaml
      CommandLine(WithList(NoLists, "templateFiles", <<"templates/controlplane.yaml">>),
                  [NoBools EXCEPT !["offline"] = "true", !["insecure"] = "true"],
                  NoStrings, <<>>),
      \* talm template -t templates/worker.yaml --set-string s=1 --set-file f=p
      \*               --set-json j={} --set-literal l=x
      CommandLine([f \in SliceFlags |->
                     CASE f = "templateFiles" -> <<"templates/worker.yaml">>
                       [] f = "stringValues"  -> <<"s=1">>
                       [] f = "fileValues"    -> <<"f=p">>
                       [] f = "jsonValues"    -> <<"j={}">>
                       [] f = "literalValues" -> <<"l=x">>
                       [] OTHER               -> <<>>],
                  NoBools, NoStrings, <<>>) }

\* pflag's Set of a StringSlice/StringArray value: the first Set of the flag
\* replaces the default, a later one appends; a flag that is not on the
\* command line leaves the variable alone.
SliceSet(cur, wasChanged, given) ==
    IF given = <<>> THEN cur
    ELSE IF wasChanged THEN cur \o given ELSE given

\* Args: cobra.NoArgs
NoArgsOK(args) == Len(args) = 0

\* The flag struct after the command line was parsed into it.
ParsedFlags(flags, chg, line) ==
    [lists   |-> [f \in SliceFlags |->
                    SliceSet(flags.lists[f], f \in chg, line.lists[f])],
     bools   |-> [f \in BoolFlags |->
                    IF line.bools[f] = "unset" THEN flags.bools[f]
                    ELSE line.bools[f] = "true"],
     strings |-> [f \in StringFlags |->
                    IF line.strings[f] = <<>> THEN flags.strings[f]
                    ELSE line.strings[f][1]]]

GivenFlags(line) ==
    {f \in SliceFlags : line.lists[f] # <<>>}
      \cup {f \in BoolFlags : line.bools[f] # "unset"}
      \cup {f \in StringFlags : line.strings[f] # <<>>}

\* templateCmd.PreRunE: the project configuration is prepended to every list
\* option, and replaces every scalar option whose flag was not changed.
PreRunFlags(flags, chg, cfg) ==
    [lists   |-> [f \in SliceFlags |->
                    IF f \in ListFlags THEN cfg.lists[f] \o flags.lists[f]
                    ELSE flags.lists[f]],
     bools   |-> [f \in BoolFlags |->
                    IF f \in {"full", "offline"} /\ f \notin chg
                    THEN cfg.bools[f] ELSE flags.bools[f]],
     strings |-> [f \in StringFlags |->
                    IF f \notin chg THEN cfg.strings[f] ELSE flags.strings[f]]]

\* templateCmd.RunE: which client the template closure is run with.
ChooseClientInsecureFirst(flags) ==
    IF flags.bools["insecure"] THEN "maintenance"
    ELSE IF flags.bools["offline"] THEN "nil" ELSE "authenticated"

ChooseClient(flags) ==
    IF flags.bools["offline"] THEN "nil"
    ELSE IF flags.bools["insecure"] THEN "maintenance"
    ELSE "authenticated"

\* template(): the engine.Options built from the flag struct.
Options(flags, cfg) ==
    [Insecure          |-> flags.bools["insecure"],
     ValueFiles        |-> flags.lists["valueFiles"],
     StringValues      |-> flags.lists["stringValues"],
     Values            |-> flags.lists["values"],
     FileValues        |-> flags.lists["fileValues"],
     JsonValues        |-> flags.lists["jsonValues"],
     LiteralValues     |-> flags.lists["literalValues"],
     TalosVersion      |-> flags.strings["talosVersion"],
     WithSecrets       |-> flags.strings["withSecrets"],
     Full              |-> flags.bools["full"],
     Root              |-> cfg.RootDir,
     Offline           |-> flags.bools["offline"],
     KubernetesVersion |-> flags.strings["kubernetesVersion"],
     TemplateFiles     |-> flags.lists["templateFiles"]]

RECURSIVE JoinStrings(_, _)
JoinStrings(s, sep) ==
    IF s = <<>> THEN ""
    ELSE IF Len(s) = 1 THEN s[1]
    ELSE s[1] \o sep \o JoinStrings(Tail(s), sep)

\* json.Marshal of a []string: a bracketed list of the quoted elements.
JsonMarshal(list) ==
    "[" \o JoinStrings([i \in DOMAIN list |-> "\"" \o list[i] \o "\""], ",") \o "]"

\* generateModeline(templates): one comment line with the JSON of the global
\* node list, of the global endpoint list and of the list it is given.
generateModeline(templates) ==
    "# talm: nodes=" \o JsonMarshal(GlobalArgs.Nodes)
      \o ", endpoints=" \o JsonMarshal(GlobalArgs.Endpoints)
      \o ", templates=" \o JsonMarshal(templates)

\* engine.Render: every template file is executed in argument order and the
\* fragments are joined by document separators; a failing file fails the whole
\* render and no fragment is returned.  failAt = 0: no template fails;
\* failAt = i: template file i fails; lookupFails: a live lookup cannot reach
\* the node (possible only with a client).
Render(c, opts, failAt, lookupFails) ==
    IF c # "nil" /\ lookupFails
    THEN [err |-> "ConnectivityError", file |-> 0, result |-> ""]
    ELSE IF failAt # 0
    THEN [err |-> "TemplateError", file |-> failAt, result |-> ""]
    ELSE [err |-> "nil", file |-> 0,
          result |-> JoinStrings([i \in DOMAIN opts.TemplateFiles |->
                                    "<" \o opts.TemplateFiles[i] \o ">"], "---\n")]

\* The closure returned by template(args), after engine.Render returned r:
\* what it prints and what it returns.
templatePrintFirst(args, r) ==
    [out |-> <<generateModeline(args) \o "\n" \o r.result>>,
     ret |-> IF r.err # "nil" THEN "failed to render templates" ELSE "nil"]

template(args, r) ==
    IF r.err # "nil"
    THEN [out |-> <<>>, ret |-> "failed to render templates"]
    ELSE [out |-> <<generateModeline(args) \o "\n" \o r.result>>,
          ret |-> "nil"]

NotRendered == [err |-> "not called", file |-> 0, result |-> ""]

InitCmdIdle ==
    /\ templateCmdFlags = FlagDefaults
    /\ changed = {}
    /\ pc = "idle"
    /\ runs = 0
    /\ client = "none"
    /\ conn = "none"
    /\ rendered = NotRendered
    /\ out = <<>>
    /\ ret = "nil"
    /\ optsLog = <<>>

InitCmd ==
    /\ Config \in Configs
    /\ GlobalArgs \in GlobalArgsChoices
    /\ cli \in CommandLines
    /\ InitCmdIdle

\* cobra's Execute up to the hooks: the command line is parsed into the flag
\* struct, then the positional arguments are validated (Args: cobra.NoArgs).
ParseFlags ==
    /\ pc \in {"idle", "done", "rejected"}
    /\ runs < MaxRuns
    /\ runs' = runs + 1
    /\ templateCmdFlags' = ParsedFlags(templateCmdFlags, changed, cli)
    /\ changed' = changed \cup GivenFlags(cli)
    /\ client' = "none"
    /\ conn' = "none"
    /\ rendered' = NotRendered
    /\ out' = <<>>
    /\ IF NoArgsOK(cli.args)
       THEN pc' = "parsed" /\ ret' = "nil"
       ELSE pc' = "rejected" /\ ret' = "unknown command"
    /\ UNCHANGED <<Config, GlobalArgs, cli, optsLog>>

PreRunE ==
    /\ pc = "parsed"
    /\ templateCmdFlags' = PreRunFlags(templateCmdFlags, changed, Config)
    /\ pc' = "prerun"
    /\ UNCHANGED <<Config, GlobalArgs, cli, changed, runs, client, conn,
                   rendered, out, ret, optsLog>>

\* RunE, with the closure of template(args) it runs.  WithClient and
\* WithClientMaintenance acquire the connection first and do not run the
\* closure when that fails.
RunE ==
    /\ pc = "prerun"
    /\ pc' = "done"
    /\ \E connOK \in BOOLEAN, lookupFails \in BOOLEAN,
          failAt \in 0..Len(templateCmdFlags.lists["templateFiles"]) :
         LET c    == ChooseClient(templateCmdFlags)
             opts == Options(templateCmdFlags, Config)
             r    == Render(c, opts, failAt, lookupFails)
             t    == template(cli.args, r)
         IN  IF c # "nil" /\ ~connOK
             THEN /\ client' = "none"
                  /\ conn' = "failed"
                  /\ ret' = "ConnectivityError"
                  /\ UNCHANGED <<rendered, out, optsLog>>
             ELSE /\ client' = c
                  /\ conn' = IF c = "nil" THEN "none" ELSE c
                  /\ rendered' = r
                  /\ out' = t.out
                  /\ ret' = t.ret
                  /\ optsLog' = Append(optsLog, opts)
    /\ UNCHANGED <<Config, GlobalArgs, cli, templateCmdFlags, changed, runs>>

(***************************************************************************)
(* talm.human_size                                                         *)
(*                                                                         *)
(* Byte counts exceed the integers TLC computes with, so a byte count is   *)
(* a little-endian sequence of base-2^10 limbs without a leading zero      *)
(* limb (<<>> is 0): <<0, 0, 1>> is 2^20.  The quotients printed by the    *)
(* helper are small and are ordinary integers.                             *)
(***************************************************************************)
MaxLimbs == 5       \* byte counts are below 2^(10 * MaxLimbs)

LimbBase == 2^10
LimbDigits == {0, 1, 128, 512, 1023}

RECURSIVE Norm(_)
Norm(a) ==
    IF a = <<>> THEN <<>>
    ELSE IF a[Len(a)] = 0 THEN Norm(SubSeq(a, 1, Len(a) - 1)) ELSE a

\* a < b, for normalised a and b
RECURSIVE Less(_, _)
Less(a, b) ==
    IF Len(a) # Len(b) THEN Len(a) < Len(b)
    ELSE IF a = <<>> THEN FALSE
    ELSE IF a[Len(a)] # b[Len(b)] THEN a[Len(a)] < b[Len(b)]
    ELSE Less(Norm(SubSeq(a, 1, Len(a) - 1)), Norm(SubSeq(b, 1, Len(b) - 1)))

RECURSIVE MulCarry(_, _, _)
MulCarry(a, c, carry) ==
    IF a = <<>> THEN (IF carry = 0 THEN <<>> ELSE MulCarry(<<carry>>, 1, 0))
    ELSE <<(a[1] * c + carry) % LimbBase>>
           \o MulCarry(Tail(a), c, (a[1] * c + carry) \div LimbBase)

\* a * c, for a small factor c
MulSmall(a, c) == Norm(MulCarry(a, c, 0))

RECURSIVE FromInt(_)
FromInt(n) == IF n = 0 THEN <<>> ELSE <<n % LimbBase>> \o FromInt(n \div LimbBase)

RECURSIVE ToInt(_)
ToInt(a) == IF a = <<>> THEN 0 ELSE a[1] + LimbBase * ToInt(Tail(a))

\* a * 2^(10 k)
ShiftLimbs(a, k) == IF a = <<>> THEN <<>> ELSE [i \in 1..k |-> 0] \o a

\* a \div 2^(10 k) and a % 2^(10 k)
DivLimbs(a, k) == IF Len(a) <= k THEN <<>> ELSE SubSeq(a, k + 1, Len(a))
ModLimbs(a, k) == Norm(IF Len(a) <= k THEN a ELSE SubSeq(a, 1, k))

\* The literals of the helper: 1048576, 1073741824 and 1099511627776.
MiB == ShiftLimbs(<<1>>, 2)
GiB == ShiftLimbs(<<1>>, 3)
TiB == ShiftLimbs(<<1>>, 4)

\* printf "%.2f" (divf bytes 2^(10 k)): the quotient in hundredths, rounded to
\* the nearest hundredth, an exact half to the even one.  (The float64
\* quotient by a power of two is exact for the byte counts below 2^53.)
Hundredths(bytes, k) ==
    LET x    == MulSmall(bytes, 100)
        q    == ToInt(DivLimbs(x, k))
        r    == ModLimbs(x, k)
        half == ShiftLimbs(<<512>>, k - 1)
    IN  IF Less(half, r) THEN q + 1
        ELSE IF r = half THEN q + (q % 2)
        ELSE q

Fixed2(h) ==
    ToString(h \div 100) \o "." \o ToString((h % 100) \div 10) \o ToString(h % 10)

Humanized(h, unit) == [unit |-> unit, hundredths |-> h, text |-> Fixed2(h) \o " " \o unit]

human_size_inclusive(bytes) ==
    IF Less(bytes, MiB) THEN Humanized(Hundredths(bytes, 2), "MB")
    ELSE IF ~Less(GiB, bytes) THEN Humanized(Hundredths(bytes, 3), "GB")
    ELSE Humanized(Hundredths(bytes, 4), "TB")

human_size_truncating(bytes) ==
    IF Less(bytes, MiB) THEN Humanized(ToInt(DivLimbs(MulSmall(bytes, 100), 2)), "MB")
    ELSE IF Less(bytes, GiB) THEN Humanized(ToInt(DivLimbs(MulSmall(bytes, 100), 3)), "GB")
    ELSE Humanized(ToInt(DivLimbs(MulSmall(bytes, 100), 4)), "TB")

\* talm.human_size
human_size(bytes) ==
    IF Less(bytes, MiB) THEN Humanized(Hundredths(bytes, 2), "MB")
    ELSE IF Less(bytes, GiB) THEN Humanized(Hundredths(bytes, 3), "GB")
    ELSE Humanized(Hundredths(bytes, 4), "TB")

RECURSIVE LimbSeqs(_)
LimbSeqs(n) ==
    IF n = 0 THEN {<<>>}
    ELSE LET shorter == LimbSeqs(n - 1)
         IN  shorter \cup {Append(a, d) : a \in {b \in shorter : Len(b) = n - 1},
                                          d \in LimbDigits}

\* The byte counts of the model: every count below 2^(10 * MaxLimbs) whose
\* limbs are in LimbDigits; 1048575, 2^20, 1073741823, 2^30 and 2^40 are among them.
ByteCounts == {Norm(a) : a \in LimbSeqs(MaxLimbs)}

NoSize == [unit |-> "", hundredths |-> 0, text |-> ""]

InitSizeIdle == sizeIn = <<>> /\ sizeOut = NoSize

InitSize == sizeIn \in ByteCounts /\ sizeOut = NoSize

HumanSize ==
    /\ sizeOut = NoSize
    /\ sizeOut' = human_size(sizeIn)
    /\ UNCHANGED sizeIn

(***************************************************************************)
(* talm.discovered.system_disk_name                                        *)
(***************************************************************************)
MaxDisks == 3       \* disks of a node

DeviceNames == {"/dev/sda", "/dev/sdb", "/dev/nvme0n1", "/dev/vda"}

RECURSIVE DiskLists(_)
DiskLists(n) ==
    IF n = 0 THEN {<<>>}
    ELSE LET shorter == DiskLists(n - 1)
         IN  shorter \cup
               {Append(l, [device_name |-> d, system_disk |-> f]) :
                  l \in {m \in shorter : Len(m) = n - 1},
                  d \in DeviceNames, f \in BOOLEAN}

\* Disk lists of at most MaxDisks disks with pairwise distinct device names.
DiskInputs ==
    {l \in DiskLists(MaxDisks) :
       \A i, j \in DOMAIN l : i # j => l[i].device_name # l[j].device_name}

\* The body of the range: one disk, with $disk as it stands.
system_disk_step_first(disk, d) ==
    IF disk = "" THEN d.device_name ELSE disk

system_disk_step(disk, d) ==
    LET first == IF disk = "" THEN d.device_name ELSE disk
    IN  IF d.system_disk THEN d.device_name ELSE first

RECURSIVE system_disk_range(_, _)
system_disk_range(disk, ds) ==
    IF ds = <<>> THEN disk
    ELSE system_disk_range(system_disk_step(disk, ds[1]), Tail(ds))

\* talm.discovered.system_disk_name
system_disk_name(ds) == system_disk_range("", ds)

InitDiskIdle == Disks = <<>> /\ diskOut = <<>>

InitDisk == Disks \in DiskInputs /\ diskOut = <<>>

SystemDiskName ==
    /\ diskOut = <<>>
    /\ diskOut' = <<system_disk_name(Disks)>>
    /\ UNCHANGED Disks

(***************************************************************************)
(* The lookup-backed helpers                                               *)
(*                                                                         *)
(* A node snapshot is the resources a lookup can return: the route, the    *)
(* address and the link lists, and the single resources of `node`.         *)
(***************************************************************************)
MaxRoutes == 2      \* routes of a snapshot
MaxAddresses == 2   \* addresses of a snapshot

Route(dst, gateway, outLinkName, family) ==
    [spec |-> [dst |-> dst, gateway |-> gateway,
               outLinkName |-> outLinkName, family |-> family]]

Address(linkName, family, scope, address) ==
    [spec |-> [linkName |-> linkName, family |-> family,
               scope |-> scope, address |-> address]]

Link(id, hardwareAddr, driver) ==
    [metadata |-> [id |-> id],
     spec |-> [hardwareAddr |-> hardwareAddr, driver |-> driver]]

RouteChoices ==
    { Route("", "192.168.100.1", "eth0", "inet4"),
      Route("", "fe80::1", "eth1", "inet6"),
      Route("10.0.0.0/8", "192.168.100.254", "eth0", "inet4"),
      Route("", "", "eth1", "inet4") }

AddressChoices ==
    { Address("eth0", "inet4", "global", "192.168.100.2/24"),
      Address("eth0", "inet4", "global", "192.168.100.10/24"),
      Address("eth0", "inet6", "link", "fe80::2/64"),
      Address("eth0", "inet4", "host", "192.168.100.3/32"),
      Address("eth1", "inet6", "global", "2001:db8::2/64") }

Eth0 == Link("eth0", "aa:bb:cc:00:00:01", "virtio_net")
Eth1 == Link("eth1", "aa:bb:cc:00:00:02", "e1000")

LinkChoices == {<<>>, <<Eth0>>, <<Eth1>>, <<Eth0, Eth1>>}

LinkNames == {"eth0", "eth1"}

NodeChoices ==
    { [machinetype |-> <<>>, hostname |-> <<>>, nodeaddress |-> <<>>, resolvers |-> <<>>],
      [machinetype |-> <<[spec |-> "controlplane"]>>,
       hostname    |-> <<[spec |-> [hostname |-> "node1"]]>>,
       nodeaddress |-> <<[spec |-> [addresses |-> <<"192.168.100.2/24">>]]>>,
       resolvers   |-> <<[spec |-> [dnsServers |-> <<"8.8.8.8", "1.1.1.1">>]]>>] }

\* .Values.floatingIP: <<>> when the values do not set it
FloatingIPChoices == {<<>>, <<"192.168.100.10">>}

RECURSIVE InjSeqs(_, _)
\* The sequences of at most n pairwise distinct elements of S.
InjSeqs(S, n) ==
    IF n = 0 THEN {<<>>}
    ELSE LET shorter == InjSeqs(S, n - 1)
             longest == {m \in shorter : Len(m) = n - 1}
         IN  shorter \cup
               {Append(p[1], p[2]) :
                  p \in {q \in longest \X S : \A i \in DOMAIN q[1] : q[1][i] # q[2]}}

\* lookup kind "" "": the list of a kind.  Offline, and for a kind the node
\* does not have, the answer is the empty map, which has no items.
lookupList(kind) ==
    IF offlineLookup THEN [found |-> FALSE, items |-> <<>>]
    ELSE CASE kind = "routes"    -> [found |-> TRUE, items |-> routes]
           [] kind = "addresses" -> [found |-> TRUE, items |-> addresses]
           [] kind = "links"     -> [found |-> TRUE, items |-> links]

\* (lookup ...).items
Items(l) == IF l.found THEN l.items ELSE <<>>

\* lookup "links" "" id: the link, or the empty map
lookupLink(id) ==
    IF offlineLookup THEN <<>>
    ELSE SelectSeq(links, LAMBDA l : l.metadata.id = id)

\* lookup kind "" id for the single resources of the node, or the empty map
lookupNode(kind) == IF offlineLookup THEN <<>> ELSE node[kind]

\* The result of a helper: the text it renders, or the failure of the render.
Rendered(text) == [err |-> FALSE, text |-> text]
Failed == [err |-> TRUE, text |-> ""]

\* strings.HasPrefix(str, prefix)
HasPrefix(prefix, str) ==
    Len(str) >= Len(prefix) /\ SubSeq(str, 1, Len(prefix)) = prefix

RECURSIVE RemoveColons(_)
\* replace ":" ""
RemoveColons(str) ==
    IF Len(str) = 0 THEN ""
    ELSE LET c == SubSeq(str, 1, 1)
         IN  (IF c = ":" THEN "" ELSE c) \o RemoveColons(SubSeq(str, 2, Len(str)))

\* printf "%s/" of a value that may be unset
PrintfSlash(v) == (IF v = <<>> THEN "%!s(<nil>)" ELSE v[1]) \o "/"

\* and (eq .spec.dst "") (not (eq .spec.gateway ""))
IsDefaultRoute(r) == r.spec.dst = "" /\ r.spec.gateway # ""

\* A chained field of a lookup: (lookup ...).spec.<name>.  On the empty map
\* .spec has no value, and a field of no value fails the render.
SpecField(l, name) ==
    IF l = <<>> THEN Failed ELSE Rendered(l[1].spec[name])

RECURSIVE ConcatRendered(_)
\* The text of a range: the texts of its iterations in order; the first
\* failing iteration fails the render.
ConcatRendered(rs) ==
    IF rs = <<>> THEN Rendered("")
    ELSE IF rs[1].err THEN Failed
    ELSE LET rest == ConcatRendered(Tail(rs))
         IN  IF rest.err THEN Failed ELSE Rendered(rs[1].text \o rest.text)

DefaultRoutes == SelectSeq(Items(lookupList("routes")), IsDefaultRoute)

\* talm.discovered.default_gateway
default_gateway ==
    ConcatRendered([i \in DOMAIN DefaultRoutes |-> Rendered(DefaultRoutes[i].spec.gateway)])

\* talm.discovered.default_link_name_by_gateway
default_link_name_by_gateway ==
    ConcatRendered([i \in DOMAIN DefaultRoutes |->
                      Rendered(DefaultRoutes[i].spec.outLinkName)])

\* talm.discovered.default_link_address_by_gateway
default_link_address_by_gateway ==
    ConcatRendered([i \in DOMAIN DefaultRoutes |->
                      SpecField(lookupLink(DefaultRoutes[i].spec.outLinkName),
                                "hardwareAddr")])

\* talm.discovered.default_link_bus_by_gateway (it renders hardwareAddr, too)
default_link_bus_by_gateway ==
    ConcatRendered([i \in DOMAIN DefaultRoutes |->
                      SpecField(lookupLink(DefaultRoutes[i].spec.outLinkName),
                                "hardwareAddr")])

\* The first range of default_addresses_by_gateway: $linkName and $family
\* after the scan of the routes.
RECURSIVE ScanRoutes(_, _)
ScanRoutes(acc, rs) ==
    IF rs = <<>> THEN acc
    ELSE ScanRoutes(IF IsDefaultRoute(rs[1])
                    THEN [linkName |-> rs[1].spec.outLinkName,
                          family   |-> rs[1].spec.family]
                    ELSE acc,
                    Tail(rs))

\* The condition of the second range, for one address.
KeepAddressAnyFamily(a, sel) ==
    /\ a.spec.linkName = sel.linkName
    /\ a.spec.scope # "host"
    /\ ~HasPrefix(PrintfSlash(floatingIP), a.spec.address)

KeepAddress(a, sel) ==
    /\ a.spec.linkName = sel.linkName
    /\ a.spec.family = sel.family
    /\ a.spec.scope # "host"
    /\ ~HasPrefix(PrintfSlash(floatingIP), a.spec.address)

\* talm.discovered.default_addresses_by_gateway
default_addresses_by_gateway ==
    LET sel  == ScanRoutes([linkName |-> "", family |-> ""],
                           Items(lookupList("routes")))
        kept == SelectSeq(Items(lookupList("addresses")),
                          LAMBDA a : KeepAddress(a, sel))
    IN  Rendered(JsonMarshal([i \in DOMAIN kept |-> kept[i].spec.address]))

\* The text of the with-block of default_link_selector_by_gateway.
SelectorText(l) ==
    "\nhardwareAddr: " \o l.spec.hardwareAddr \o "\ndriver: " \o l.spec.driver

RECURSIVE SelectorRange(_)
\* The range of default_link_selector_by_gateway: the with-block of the first
\* default route whose link exists, where the range breaks.
SelectorRange(rs) ==
    IF rs = <<>> THEN ""
    ELSE LET l == lookupLink(rs[1].spec.outLinkName)
         IN  IF l # <<>> THEN SelectorText(l[1]) ELSE SelectorRange(Tail(rs))

\* talm.discovered.default_link_selector_by_gateway
default_link_selector_by_gateway == Rendered(SelectorRange(DefaultRoutes))

\* talm.discovered.machinetype: .spec of the empty map renders nothing
machinetype ==
    LET l == lookupNode("machinetype")
    IN  IF l = <<>> THEN Rendered("") ELSE Rendered(l[1].spec)

\* talm.discovered.hostname
hostname ==
    LET l == lookupNode("hostname")
    IN  IF l = <<>> THEN Rendered("") ELSE Rendered(l[1].spec.hostname)

\* talm.discovered.default_addresses
default_addresses ==
    LET l == lookupNode("nodeaddress")
    IN  IF l = <<>> THEN Rendered("") ELSE Rendered(JsonMarshal(l[1].spec.addresses))

\* talm.discovered.default_resolvers
default_resolvers ==
    LET l == lookupNode("resolvers")
    IN  IF l = <<>> THEN Rendered("") ELSE Rendered(JsonMarshal(l[1].spec.dnsServers))

\* talm.predictable_link_name: dig "spec" "hardwareAddr" with the link name
\* itself as the default
predictable_link_name(name) ==
    LET l   == lookupLink(name)
        dug == IF l = <<>> THEN name ELSE l[1].spec.hardwareAddr
    IN  Rendered("enx" \o RemoveColons(dug))

NoResult == [err |-> FALSE, text |-> "(not rendered)"]

InitNetIdle ==
    /\ routes = <<>>
    /\ addresses = <<>>
    /\ links = <<>>
    /\ node = [machinetype |-> <<>>, hostname |-> <<>>, nodeaddress |-> <<>>,
               resolvers |-> <<>>]
    /\ floatingIP = <<>>
    /\ offlineLookup = TRUE
    /\ helper = "none"
    /\ netOut = NoResult

\* An online render against any snapshot, or an offline render.
InitNet ==
    /\ routes \in InjSeqs(RouteChoices, MaxRoutes)
    /\ addresses \in InjSeqs(AddressChoices, MaxAddresses)
    /\ links \in LinkChoices
    /\ node \in NodeChoices
    /\ floatingIP \in FloatingIPChoices
    /\ offlineLookup \in BOOLEAN
    /\ offlineLookup =>
         /\ routes \in {<<>>, <<Route("", "192.168.100.1", "eth0", "inet4")>>}
         /\ addresses \in {<<>>, <<Address("eth0", "inet4", "global", "192.168.100.2/24")>>}
         /\ links = <<>>
         /\ floatingIP = <<>>
    /\ helper = "none"
    /\ netOut = NoResult

Include(name, result) ==
    /\ helper = "none"
    /\ helper' = name
    /\ netOut' = result
    /\ UNCHANGED <<routes, addresses, links, node, floatingIP, offlineLookup>>

DefaultGateway == Include("talm.discovered.default_gateway", default_gateway)
DefaultAddressesByGateway ==
    Include("talm.discovered.default_addresses_by_gateway", default_addresses_by_gateway)
DefaultLinkNameByGateway ==
    Include("talm.discovered.default_link_name_by_gateway", default_link_name_by_gateway)
DefaultLinkAddressByGateway ==
    Include("talm.discovered.default_link_address_by_gateway",
            default_link_address_by_gateway)
DefaultLinkBusByGateway ==
    Include("talm.discovered.default_link_bus_by_gateway", default_link_bus_by_gateway)
DefaultLinkSelectorByGateway ==
    Include("talm.discovered.default_link_selector_by_gateway",
            default_link_selector_by_gateway)
MachineType == Include("talm.discovered.machinetype", machinetype)
Hostname == Include("talm.discovered.hostname", hostname)
DefaultAddresses == Include("talm.discovered.default_addresses", default_addresses)
DefaultResolvers == Include("talm.discovered.default_resolvers", default_resolvers)
PredictableLinkName ==
    \E name \in LinkNames :
        Include("talm.predictable_link_name:" \o name, predictable_link_name(name))

(***************************************************************************)
(* The init command                                                        *)
(*                                                                         *)
(* The project directory is a map from the paths init writes to the        *)
(* content of the file: "absent", "old" for a file that was there before   *)
(* the first run, "partial" for what a failed write leaves, and the run    *)
(* that wrote it otherwise (the secrets and the talosconfig of every run   *)
(* differ).                                                                *)
(***************************************************************************)
MaxInitRuns == 2    \* runs of init in one project directory

\* The keys of generated.PresetFiles.
PresetFiles ==
    { "cozystack/Chart.yaml", "cozystack/templates/_helpers.tpl",
      "cozystack/templates/controlplane.yaml", "cozystack/templates/worker.yaml",
      "cozystack/values.yaml",
      "generic/Chart.yaml", "generic/templates/_helpers.tpl",
      "generic/templates/controlplane.yaml", "generic/templates/worker.yaml",
      "generic/values.yaml",
      "talm/Chart.yaml", "talm/templates/_helpers.tpl" }

AvailablePresets == {"generic", "cozystack"}

\* The paths below Config.RootDir that init writes.
PresetPaths == {"Chart.yaml", "templates/_helpers.tpl", "templates/controlplane.yaml",
                "templates/worker.yaml", "values.yaml"}
ProjectFiles == {"secrets.yaml", "talosconfig"} \cup PresetPaths

RECURSIVE BeforeSlash(_)
BeforeSlash(str) ==
    IF Len(str) = 0 \/ SubSeq(str, 1, 1) = "/" THEN ""
    ELSE SubSeq(str, 1, 1) \o BeforeSlash(SubSeq(str, 2, Len(str)))

\* strings.SplitN(path, "/", 2)
SplitN2(path) ==
    LET head == BeforeSlash(path)
    IN  IF Len(head) = Len(path) THEN <<path>>
        ELSE <<head, SubSeq(path, Len(head) + 2, Len(path))>>

\* The split of every key of PresetFiles.
PresetParts == [path \in PresetFiles |-> SplitN2(path)]

isValidPreset(preset) == preset \in AvailablePresets

\* validateFileExists: TRUE when it returns the "already exists" error.
\* os.Stat succeeds exactly on the files that are there.
validateFileExistsNever(files, force, file) == FALSE

validateFileExists(files, force, file) ==
    ~force /\ files[file] # "absent"

\* What the system refuses a run: nothing, or one step of it.  "version" is a
\* talos-version that does not parse, "bundle" a failing secrets.NewBundle,
\* "marshal" a failing yaml.Marshal of the secrets, "config" a failure between
\* the two writes of RunE; "mkdir" fails os.MkdirAll and "write" fails
\* os.WriteFile for one file.
FaultChoices ==
    {[kind |-> k, file |-> ""] : k \in {"none", "version", "bundle", "marshal", "config"}}
        \cup {[kind |-> k, file |-> f] : k \in {"mkdir", "write"}, f \in ProjectFiles}

\* writeToDestination: the directory after the call and the error returned.
\* A failed os.WriteFile has created the file already.
writeToDestination(files, force, file, content, fault) ==
    IF validateFileExists(files, force, file)
    THEN [fs |-> files, err |-> "already exists"]
    ELSE IF fault.kind = "mkdir" /\ fault.file = file
    THEN [fs |-> files, err |-> "failed to create output dir"]
    ELSE IF fault.kind = "write" /\ fault.file = file
    THEN [fs |-> [files EXCEPT ![file] = "partial"], err |-> "write failed"]
    ELSE [fs |-> [files EXCEPT ![file] = content], err |-> "nil"]

\* writeSecretsBundleToFile
writeSecretsBundleToFile(files, force, content, fault) ==
    IF fault.kind = "marshal" THEN [fs |-> files, err |-> "marshal failed"]
    ELSE IF validateFileExists(files, force, "secrets.yaml")
    THEN [fs |-> files, err |-> "already exists"]
    ELSE writeToDestination(files, force, "secrets.yaml", content, fault)

\* What a run of init carries along: the directory, the variable err, whether
\* RunE has returned, and the files written and the files refused so far.
Progress(files, err, returned, wrote, refusedSet) ==
    [fs |-> files, err |-> err, returned |-> returned,
     written |-> wrote, refused |-> refusedSet]

\* One call of writeToDestination from RunE, recorded in the progress.
Wrote(p, w, file, err) ==
    Progress(w.fs, err, err # "nil",
             IF w.err = "nil" THEN p.written \cup {file} ELSE p.written,
             IF w.err = "nil" THEN p.refused ELSE p.refused \cup {file})

\* The body of the preset loop for one key of PresetFiles.  The result of
\* writing Chart.yaml is dropped and err keeps the value it had; the result of
\* any other file is assigned to err; the loop returns when err is set.
PresetStep(p, path, presetName, force, content, fault) ==
    LET parts == PresetParts[path]
        w == writeToDestination(p.fs, force, parts[2], content, fault)
    IN  IF p.returned \/ parts[1] # presetName THEN p
        ELSE Wrote(p, w, parts[2],
                   IF parts[Len(parts)] = "Chart.yaml" THEN p.err ELSE w.err)

\* The keys of the chosen chart the range has not reached yet.  The keys of
\* the other charts change nothing wherever the range reaches them.
Unvisited(p, presetName) ==
    {path \in PresetFiles :
        /\ PresetParts[path][1] = presetName
        /\ PresetParts[path][2] \notin p.written \cup p.refused}

RECURSIVE PresetLoop(_, _, _, _, _, _)
\* for path, content := range generated.PresetFiles: the range reaches the
\* keys in any order, so after n more keys a run is in one of these states.
PresetLoop(S, n, presetName, force, content, fault) ==
    IF n = 0 THEN S
    ELSE PresetLoop(
           UNION { IF p.returned \/ Unvisited(p, presetName) = {} THEN {p}
                   ELSE {PresetStep(p, path, presetName, force, content, fault) :
                           path \in Unvisited(p, presetName)} : p \in S },
           n - 1, presetName, force, content, fault)

\* initCmd.RunE up to the preset loop: the secrets and the talosconfig.  The
\* config bundle is used before its error is looked at, so a failing
\* GenerateConfigBundle returns the error or panics on the nil bundle.
BeforePresets(files, args, force, content, fault) ==
    LET presetName == IF Len(args) = 1 THEN args[1] ELSE "generic"
        start == Progress(files, "nil", FALSE, {}, {})
        s == writeSecretsBundleToFile(files, force, content, fault)
        ps == Wrote(start, s, "secrets.yaml", s.err)
        t == writeToDestination(ps.fs, force, "talosconfig", content, fault)
    IN  IF fault.kind = "version"
        THEN {[start EXCEPT !.err = "invalid talos-version", !.returned = TRUE]}
        ELSE IF ~isValidPreset(presetName)
        THEN {[start EXCEPT !.err = "invalid preset", !.returned = TRUE]}
        ELSE IF fault.kind = "bundle"
        THEN {[start EXCEPT !.err = "failed to create secrets bundle", !.returned = TRUE]}
        ELSE IF fault.kind = "marshal"
        THEN {[start EXCEPT !.err = s.err, !.returned = TRUE]}
        ELSE IF ps.returned THEN {ps}
        ELSE IF fault.kind = "config"
        THEN {[ps EXCEPT !.err = e, !.returned = TRUE] :
                e \in {"failed to generate config", "panic"}}
        ELSE {Wrote(ps, t, "talosconfig", t.err)}

\* initCmd.RunE: the states in which a run can end.
InitRunE(files, args, force, content, fault) ==
    LET presetName == IF Len(args) = 1 THEN args[1] ELSE "generic"
    IN  PresetLoop(BeforePresets(files, args, force, content, fault),
                   Cardinality(PresetPaths), presetName, force, content, fault)

InitArgs == {<<>>, <<"cozystack">>, <<"bogus">>}

InitFilesIdle ==
    /\ fs = [f \in ProjectFiles |-> "absent"]
    /\ initRuns = 0
    /\ initCmdFlags = [force |-> FALSE]
    /\ initRet = "nil"
    /\ written = {}
    /\ refused = {}

\* The files a project directory may hold before the first run: one of each
\* way init writes a file (the three templates are written as values.yaml is).
MayExist == {"secrets.yaml", "talosconfig", "Chart.yaml", "values.yaml"}

\* A project directory before the first run: each such file is there or not.
InitFiles ==
    /\ fs \in {[f \in ProjectFiles |-> IF f \in X THEN "old" ELSE "absent"] :
                 X \in SUBSET MayExist}
    /\ initRuns = 0
    /\ initCmdFlags = [force |-> FALSE]
    /\ initRet = "nil"
    /\ written = {}
    /\ refused = {}

\* One run of talm init [preset] [--force].
InitCommand ==
    /\ initRuns < MaxInitRuns
    /\ \E args \in InitArgs, force \in BOOLEAN, fault \in FaultChoices :
         \E r \in InitRunE(fs, args, force, "run" \o ToString(initRuns + 1), fault) :
            /\ fs' = r.fs
            /\ initRet' = r.err
            /\ written' = r.written
            /\ refused' = r.refused
            /\ initCmdFlags' = [force |-> force]
    /\ initRuns' = initRuns + 1

(***************************************************************************)
(* Specifications                                                          *)
(***************************************************************************)
Init == InitCmd /\ InitSizeIdle /\ InitDiskIdle /\ InitNetIdle /\ InitFilesIdle

Next ==
    \/ ParseFlags /\ UNCHANGED <<sizeVars, diskVars, netVars, initVars>>
    \/ PreRunE /\ UNCHANGED <<sizeVars, diskVars, netVars, initVars>>
    \/ RunE /\ UNCHANGED <<sizeVars, diskVars, netVars, initVars>>

Spec == Init /\ [][Next]_vars

InitCmdFixed == InitCmdIdle /\ Config \in {c \in Configs : c.RootDir = "cluster"}
           /\ GlobalArgs \in {g \in GlobalArgsChoices : g.Nodes = <<>>}
           /\ cli \in {l \in CommandLines : GivenFlags(l) = {}}

SizeInit == InitCmdFixed /\ InitSize /\ InitDiskIdle /\ InitNetIdle /\ InitFilesIdle

SizeNext == HumanSize /\ UNCHANGED <<cmdVars, diskVars, netVars, initVars>>

SpecSize == SizeInit /\ [][SizeNext]_vars

DiskInit == InitCmdFixed /\ InitSizeIdle /\ InitDisk /\ InitNetIdle /\ InitFilesIdle

DiskNext == SystemDiskName /\ UNCHANGED <<cmdVars, sizeVars, netVars, initVars>>

SpecDisk == DiskInit /\ [][DiskNext]_vars

NetInit == InitCmdFixed /\ InitSizeIdle /\ InitDiskIdle /\ InitNet /\ InitFilesIdle

NetNext ==
    \/ DefaultGateway /\ UNCHANGED <<cmdVars, sizeVars, diskVars, initVars>>
    \/ DefaultAddressesByGateway /\ UNCHANGED <<cmdVars, sizeVars, diskVars, initVars>>
    \/ DefaultLinkNameByGateway /\ UNCHANGED <<cmdVars, sizeVars, diskVars, initVars>>
    \/ DefaultLinkAddressByGateway /\ UNCHANGED <<cmdVars, sizeVars, diskVars, initVars>>
    \/ DefaultLinkBusByGateway /\ UNCHANGED <<cmdVars, sizeVars, diskVars, initVars>>
    \/ DefaultLinkSelectorByGateway /\ UNCHANGED <<cmdVars, sizeVars, diskVars, initVars>>
    \/ MachineType /\ UNCHANGED <<cmdVars, sizeVars, diskVars, initVars>>
    \/ Hostname /\ UNCHANGED <<cmdVars, sizeVars, diskVars, initVars>>
    \/ DefaultAddresses /\ UNCHANGED <<cmdVars, sizeVars, diskVars, initVars>>
    \/ DefaultResolvers /\ UNCHANGED <<cmdVars, sizeVars, diskVars, initVars>>
    \/ PredictableLinkName /\ UNCHANGED <<cmdVars, sizeVars, diskVars, initVars>>

SpecNet == NetInit /\ [][NetNext]_vars

FilesInit == InitCmdFixed /\ InitSizeIdle /\ InitDiskIdle /\ InitNetIdle /\ InitFiles

FilesNext == InitCommand /\ UNCHANGED <<cmdVars, sizeVars, diskVars, netVars>>

SpecInit == FilesInit /\ [][FilesNext]_vars

(***************************************************************************)
(* Properties of the template command (checked under Spec)                 *)
(***************************************************************************)

\* C1: when engine.Render fails, the invocation writes nothing to standard
\* output and returns an error; whatever is written was written after a
\* successful render.
RenderFailureWritesNothing ==
    /\ rendered.err \notin {"nil", "not called"}
         => out = <<>> /\ ret = "failed to render templates"
    /\ out # <<>> => rendered.err = "nil" /\ ret = "nil" /\ pc = "done"

\* The second of two template files failed, after the first rendered.
SecondTemplateFailed ==
    /\ pc = "done"
    /\ Len(templateCmdFlags.lists["templateFiles"]) = 2
    /\ rendered.err = "TemplateError"
    /\ rendered.file = 2
    /\ out = <<>>

\* C2: when the effective offline option is true the render runs with a nil
\* client, no connection is acquired and no ConnectivityError is returned,
\* whatever the insecure flag.
OfflineNeverConnects ==
    (pc = "done" /\ templateCmdFlags.bools["offline"])
        => /\ client = "nil"
           /\ conn = "none"
           /\ rendered.err \notin {"ConnectivityError", "not called"}
           /\ ret # "ConnectivityError"

\* An offline render that was also given --insecure.
OfflineInsecureRendered ==
    /\ pc = "done"
    /\ templateCmdFlags.bools["offline"]
    /\ templateCmdFlags.bools["insecure"]
    /\ client = "nil"
    /\ out # <<>>

\* C3: the templates field of the modeline that is printed is the list of
\* template files handed to the renderer.
ModelineNamesRenderedTemplates ==
    out # <<>>
        => HasPrefix("# talm: nodes=" \o JsonMarshal(GlobalArgs.Nodes)
                       \o ", endpoints=" \o JsonMarshal(GlobalArgs.Endpoints)
                       \o ", templates="
                       \o JsonMarshal(optsLog[Len(optsLog)].TemplateFiles) \o "\n",
                     out[1])

\* The list options of an engine.Options, by the name of their flag field.
OptionList(o, f) ==
    CASE f = "valueFiles"    -> o.ValueFiles
      [] f = "values"        -> o.Values
      [] f = "stringValues"  -> o.StringValues
      [] f = "fileValues"    -> o.FileValues
      [] f = "jsonValues"    -> o.JsonValues
      [] f = "literalValues" -> o.LiteralValues

Occurrences(e, list) == Cardinality({i \in DOMAIN list : list[i] = e})

\* C10: every render of one process, given the same configuration and the
\* same command line, is handed list options in which no entry of the
\* project configuration is repeated.
ConfigurationNotRepeated ==
    \A n \in DOMAIN optsLog, f \in ListFlags :
        \A i \in DOMAIN Config.lists[f] :
            Occurrences(Config.lists[f][i], OptionList(optsLog[n], f))
                = Occurrences(Config.lists[f][i], Config.lists[f])

(***************************************************************************)
(* Properties of talm.human_size (checked under SpecSize)                  *)
(***************************************************************************)

\* C4, as claimed: exactly 2^30 bytes are printed with the GB unit.
GiBPrintedAsGB ==
    (sizeIn = <<0, 0, 0, 1>> /\ sizeOut # NoSize) => sizeOut.unit = "GB"

\* C4, amended: exactly 2^30 bytes are printed with the TB unit, as
\* "0.00 TB"; the GB range ends with 2^30 - 1 bytes, printed "1.00 GB".
GiBPrintedAsTB ==
    /\ (sizeIn = <<0, 0, 0, 1>> /\ sizeOut # NoSize)
         => sizeOut.unit = "TB" /\ sizeOut.text = "0.00 TB"
    /\ (sizeIn = <<1023, 1023, 1023>> /\ sizeOut # NoSize)
         => sizeOut.unit = "GB" /\ sizeOut.text = "1.00 GB"

GiBHumanized == sizeIn = <<0, 0, 0, 1>> /\ sizeOut.text = "0.00 TB"

\* The number of limbs of the divisor of a unit: 2^20, 2^30, 2^40.
UnitLimbs(unit) == CASE unit = "MB" -> 2 [] unit = "GB" -> 3 [] unit = "TB" -> 4

\* C5: the unit is MB below 2^20 bytes, GB from 2^20 to below 2^30 and TB
\* from 2^30 on, and the number printed is the byte count divided by 2^20,
\* 2^30 or 2^40, to the nearest hundredth, with two decimals.
UnitsByBinaryThresholds ==
    sizeOut # NoSize =>
        LET h == sizeOut.hundredths
            k == UnitLimbs(sizeOut.unit)
            b200 == MulSmall(sizeIn, 200)
        IN  /\ sizeOut.unit = (IF Len(sizeIn) <= 2 THEN "MB"
                               ELSE IF Len(sizeIn) = 3 THEN "GB" ELSE "TB")
            /\ ~Less(ShiftLimbs(FromInt(2 * h + 1), k), b200)
            /\ h >= 1 => ~Less(b200, ShiftLimbs(FromInt(2 * h - 1), k))
            /\ sizeOut.text = ToString(h \div 100) \o "."
                                \o (IF h % 100 < 10 THEN "0" ELSE "")
                                \o ToString(h % 100) \o " " \o sizeOut.unit

\* 1048575 bytes, one below 2^20, are rounded up to "1.00 MB".
RoundedUpBelowMiB == sizeIn = <<1023, 1023>> /\ sizeOut.text = "1.00 MB"

(***************************************************************************)
(* Properties of talm.discovered.system_disk_name (checked under SpecDisk) *)
(***************************************************************************)
Flagged == {i \in DOMAIN Disks : Disks[i].system_disk}

MinOf(S) == CHOOSE i \in S : \A j \in S : i <= j
MaxOf(S) == CHOOSE i \in S : \A j \in S : i >= j

\* C6, as claimed: the helper renders the name of the first disk flagged as
\* system disk, or of the first disk when none is flagged, or nothing.
FirstFlaggedDisk ==
    diskOut # <<>> =>
        diskOut[1] = (IF Flagged # {} THEN Disks[MinOf(Flagged)].device_name
                      ELSE IF Disks # <<>> THEN Disks[1].device_name ELSE "")

\* C6, amended: the helper renders the name of the last disk flagged as
\* system disk, or of the first disk when none is flagged, or nothing.
LastFlaggedDisk ==
    diskOut # <<>> =>
        diskOut[1] = (IF Flagged # {} THEN Disks[MaxOf(Flagged)].device_name
                      ELSE IF Disks # <<>> THEN Disks[1].device_name ELSE "")

\* Two flagged disks, with an unflagged disk before them.
TwoFlaggedDisks ==
    /\ Len(Disks) = 3
    /\ Flagged = {2, 3}
    /\ diskOut = <<Disks[3].device_name>>

(***************************************************************************)
(* Properties of the lookup-backed helpers (checked under SpecNet)         *)
(***************************************************************************)
RECURSIVE AddressIP(_)
\* The IP of an address in CIDR notation: the text before the slash.
AddressIP(str) ==
    IF Len(str) = 0 \/ SubSeq(str, 1, 1) = "/" THEN ""
    ELSE SubSeq(str, 1, 1) \o AddressIP(SubSeq(str, 2, Len(str)))

IsFloatingIP(a) == floatingIP # <<>> /\ AddressIP(a.spec.address) = floatingIP[1]

TheDefaultRoutes == SelectSeq(routes, IsDefaultRoute)

AddressesOf(as) == JsonMarshal([i \in DOMAIN as |-> as[i].spec.address])

OneDefaultRouteRendered ==
    /\ helper = "talm.discovered.default_addresses_by_gateway"
    /\ ~offlineLookup
    /\ Len(TheDefaultRoutes) = 1

\* C7, as claimed: with one default route, the addresses rendered are the
\* addresses on the route's outgoing link that are not host-scoped and are
\* not the floating IP.
AddressesOnDefaultLink ==
    OneDefaultRouteRendered =>
        LET r == TheDefaultRoutes[1]
        IN  /\ ~netOut.err
            /\ netOut.text =
                 AddressesOf(SelectSeq(addresses, LAMBDA a :
                     /\ a.spec.linkName = r.spec.outLinkName
                     /\ a.spec.scope # "host"
                     /\ ~IsFloatingIP(a)))

\* C7, amended: with one default route, the addresses rendered are the
\* addresses on the route's outgoing link, of the route's address family,
\* that are not host-scoped and are not the floating IP.
AddressesOnDefaultLinkOfFamily ==
    OneDefaultRouteRendered =>
        LET r == TheDefaultRoutes[1]
        IN  /\ ~netOut.err
            /\ netOut.text =
                 AddressesOf(SelectSeq(addresses, LAMBDA a :
                     /\ a.spec.linkName = r.spec.outLinkName
                     /\ a.spec.family = r.spec.family
                     /\ a.spec.scope # "host"
                     /\ ~IsFloatingIP(a)))

\* One address of the default link is rendered and the floating IP is not.
FloatingIPLeftOut ==
    /\ OneDefaultRouteRendered
    /\ floatingIP = <<"192.168.100.10">>
    /\ Len(addresses) = 2
    /\ \E i \in DOMAIN addresses : IsFloatingIP(addresses[i])
    /\ netOut.text = "[\"192.168.100.2/24\"]"

\* C8: with more than one default route, the gateway, the addresses and the
\* link selector are those of the last default route of the scan.
LastDefaultRouteWins ==
    (~offlineLookup /\ Len(TheDefaultRoutes) > 1) =>
        LET r == TheDefaultRoutes[Len(TheDefaultRoutes)]
            l == SelectSeq(links, LAMBDA x : x.metadata.id = r.spec.outLinkName)
        IN  /\ helper = "talm.discovered.default_gateway"
                 => netOut = Rendered(r.spec.gateway)
            /\ helper = "talm.discovered.default_addresses_by_gateway"
                 => netOut.text =
                      AddressesOf(SelectSeq(addresses, LAMBDA a :
                          /\ a.spec.linkName = r.spec.outLinkName
                          /\ a.spec.family = r.spec.family
                          /\ a.spec.scope # "host"
                          /\ ~IsFloatingIP(a)))
            /\ helper = "talm.discovered.default_link_selector_by_gateway"
                 => netOut = Rendered(IF l = <<>> THEN "" ELSE SelectorText(l[1]))

\* C9: no lookup-backed helper fails the render, whatever the snapshot: not
\* offline, and not when a default route names a link that does not exist.
LookupHelpersNeverFail == helper # "none" => ~netOut.err

(***************************************************************************)
(* Properties of the init command                                          *)
(***************************************************************************)

\* C11: a run of init without --force leaves every file that was there
\* before the run with the content it had.
NoOverwriteWithoutForce ==
    [][(initRuns' # initRuns /\ ~initCmdFlags'.force) =>
         \A f \in ProjectFiles : fs[f] # "absent" => fs'[f] = fs[f]]_vars

\* A run without --force found Chart.yaml in place, refused to write it and
\* left it as it was, and wrote the files that were missing.
ExistingChartKept ==
    /\ initRuns = 1
    /\ ~initCmdFlags.force
    /\ fs["Chart.yaml"] = "old"
    /\ "Chart.yaml" \in refused
    /\ {"secrets.yaml", "talosconfig", "values.yaml"} \subseteq written

\* C12: a run of init that returns no error has written secrets.yaml,
\* talosconfig and every file of the preset, and a run in which a write was
\* rejected or failed returns an error.
NilOnlyWhenAllWritten ==
    initRuns > 0 =>
        /\ initRet = "nil" => ProjectFiles \subseteq written
        /\ refused # {} => initRet # "nil"

====
